---- MODULE Spec2Model ----
(***************************************************************************)
(* Model of compute_away_streaks (notebooks/05-Tidy-Data.ipynb, "Road      *)
(* Trips"): a manual loop over one team's home_away column that produces   *)
(* the number of consecutive away games ending at every row.               *)
(*                                                                         *)
(* The notebook gives the function as an exercise skeleton: the statements *)
(* of the loop, the test of the branch, the initial values and the final   *)
(* pd.Series(...) are written out, and two ellipses stand for the body of  *)
(* the away branch and for the value assigned in the else branch (the      *)
(* filled-in version is solutions/tidy_05.py).  AwayBranch and HomeReset   *)
(* fill the two ellipses from the specification; everything else follows   *)
(* the notebook's text.  The skeleton appends a name `streak` that it never *)
(* binds; the model appends the running counter current_streak, the only   *)
(* counter the function has.                                               *)
(***************************************************************************)
EXTENDS Integers, Sequences, FiniteSets, TLC

\* ---------------------------------------------------------------- bounds
\* longest input sequence
MaxLen == 7
\* largest rotation applied to the index labels of the input
MaxRot == 2
\* smallest index label of the input (labels are not positions)
LabelBase == 10
\* longest input of a call in a series of calls, and the number of earlier
\* calls that are remembered
MaxCallLen == 2
MaxCalls == 2
\* most lines of a review handed to format_review
MaxReviewLines == 3
\* most lines of the raw file
MaxFileLines == 6
\* reviews per chunk: BATCH_SIZE is 100 in the notebook ("intentionally small
\* for demonstration"); it is scaled down here so that files of MaxFileLines
\* lines fill more than one chunk
BATCH_SIZE == 2
\* most runs of the first-review cell
MaxRuns == 3
\* most rows of tidy
MaxRows == 5
\* most dates with games
MaxDates == 3
\* most rows of df1 and of df2
MaxIdx == 3

\* ---------------------------------------------------------------- values
\* the two recognized tags of the home_away column and one tag outside them
Away == "away_team"
Home == "home_team"
Unrecognized == "neutral"
Tags == {Away, Home, Unrecognized}

\* every sequence over S of length 0..n
SeqsUpTo(S, n) == UNION {[1..k -> S] : k \in 0..n}

\* the index of the input Series: n distinct labels, in an order that is
\* not sorted when r > 0 (as in the test's 1231, 4, 24, 1269, ...)
IndexOf(n, r) == [i \in 1..n |-> LabelBase + ((i - 1 + r) % n)]

\* compute_away_streaks: the argument, the locals, the position in the
\* code and the value that comes back
VARIABLES v, index, streaks, current_streak, pos, pc, outcome, result

\* a notebook session that calls compute_away_streaks again and again: the
\* argument as the caller passed it, and the calls that have returned
VARIABLES arg, calls

\* format_review(review): the argument and what comes back
VARIABLES review, formatted

\* the full pipeline: the raw file and the handle f on it, the state of the
\* generators (partitionby's current group and the tuple it has just
\* produced, whether `reviews` is exhausted, partition_all's tuple under
\* construction `item` and the tuple `prev` it holds back), the chunk files
\* written, the position in the code, the exception that ended the run, and
\* two records of what happened: the items handed to format_review and the
\* dicts `reviews` has yielded
VARIABLES file, fpos, fopen, group, emitted, exhausted, item, prev, written,
          ppc, failure, handed, yielded

\* the for loop over enumerate(dfs): the index i that enumerate gives next,
\* and the indexes of the file names 'chunk_<i>' written so far
VARIABLES chunk_no, names

\* the first-review cell: the list `first` and how often the cell has run
\* (it reads the handle f: file, fpos, fopen)
VARIABLES first, runs

\* the transform cell: the frame tidy (one row per team and game, in frame
\* order), the Series the notebook calls `streaks`, the column
\* tidy['away_streak'], and the position in the cell
VARIABLES tidy, streaks_col, away_streak, tpc

\* the stack / unstack cells: the long-form Series rest, the wide frame
\* rest.unstack('home_away'), its .stack(), and the position in the cells
VARIABLES rest, unstacked, stacked, spc

\* the alignment cells: the frames df1 and df2 (column A), the frame
\* df1 + df2, and the position in the cells
VARIABLES df1, df2, df_sum, apc

streakVars == <<v, index, streaks, current_streak, pos, pc, outcome, result>>
callVars == <<arg, calls>>
formatVars == <<review, formatted>>
pipeVars == <<file, fpos, fopen, group, emitted, exhausted, item, prev, written,
              ppc, failure, handed, yielded, chunk_no, names>>
enumVars == <<chunk_no, names>>
firstVars == <<first, runs>>
tidyVars == <<tidy, streaks_col, away_streak, tpc>>
stackVars == <<rest, unstacked, stacked, spc>>
alignVars == <<df1, df2, df_sum, apc>>

\* the variables of the other cells, untouched by compute_away_streaks
otherThanStreak == <<formatVars, pipeVars, firstVars, tidyVars, stackVars, alignVars>>
otherThanFormat == <<streakVars, callVars, pipeVars, firstVars, tidyVars, stackVars, alignVars>>
otherThanPipe == <<streakVars, callVars, formatVars, firstVars, tidyVars, stackVars, alignVars>>
otherThanFile == <<streakVars, callVars, formatVars, tidyVars, stackVars, alignVars>>
otherThanStack == <<streakVars, callVars, formatVars, pipeVars, firstVars, tidyVars, alignVars>>
otherThanAlign == <<streakVars, callVars, formatVars, pipeVars, firstVars, tidyVars, stackVars>>
otherThanTidy == <<streakVars, callVars, formatVars, pipeVars, firstVars, stackVars, alignVars>>

vars == <<streakVars, callVars, otherThanStreak>>

\* the state of a part of the notebook that has not run
IdleStreak ==
    /\ v = <<>> /\ index = <<>> /\ streaks = <<>> /\ current_streak = 0
    /\ pos = 0 /\ pc = "idle" /\ outcome = "idle" /\ result = <<>>
IdleCalls == arg = <<>> /\ calls = <<>>
IdleFormat == review = <<>> /\ formatted = <<>>
IdlePipe ==
    /\ file = <<>> /\ fpos = 0 /\ fopen = FALSE /\ group = <<>> /\ emitted = <<>>
    /\ exhausted = FALSE /\ item = <<>> /\ prev = <<>> /\ written = <<>>
    /\ ppc = "idle" /\ failure = <<>> /\ handed = <<>> /\ yielded = <<>>
    /\ chunk_no = 0 /\ names = <<>>
IdleFirst == first = <<>> /\ runs = 0
IdleTidy == tidy = <<>> /\ streaks_col = <<>> /\ away_streak = <<>> /\ tpc = "idle"
IdleStack == rest = <<>> /\ unstacked = <<>> /\ stacked = <<>> /\ spc = "idle"
IdleAlign == df1 = <<>> /\ df2 = <<>> /\ df_sum = <<>> /\ apc = "idle"

\* ------------------------------------------------------- the function
\* streaks = []
InitialStreaks_seeded == <<0>>
InitialStreaks == <<>>

\* current_streak = 0
InitialStreak == 0

\* if row == 'away_team':
IsAway_swapped(row) == row = Home
IsAway_notHome(row) == row # Home
IsAway(row) == row = Away

\* the body of the away branch (first ellipsis)
AwayBranch(cs) == cs + 1

\* the value assigned in the else branch (second ellipsis)
HomeReset == 0

\* one pass of the loop body for `row`: the branch updates the counter,
\* then the counter is appended
LoopBody_appendFirst(row, cs) ==
    [current_streak |-> IF IsAway(row) THEN AwayBranch(cs) ELSE HomeReset,
     appended |-> cs]
LoopBody(row, cs) ==
    LET cs2 == IF IsAway(row) THEN AwayBranch(cs) ELSE HomeReset
    IN  [current_streak |-> cs2, appended |-> cs2]

\* for row in v: another row is left
HasNext_skipLast(p, s) == p < Len(s)
HasNext(p, s) == p <= Len(s)

\* pd.Series(data, index=idx): one labelled entry per position; the
\* constructor raises ValueError when the lengths differ
Series_rangeIndex(data, idx) ==
    IF Len(data) = Len(idx)
    THEN [outcome |-> "returned",
          value |-> [i \in 1..Len(data) |-> [label |-> i - 1, value |-> data[i]]]]
    ELSE [outcome |-> "ValueError", value |-> <<>>]
Series(data, idx) ==
    IF Len(data) = Len(idx)
    THEN [outcome |-> "returned",
          value |-> [i \in 1..Len(data) |-> [label |-> idx[i], value |-> data[i]]]]
    ELSE [outcome |-> "ValueError", value |-> <<>>]

\* the call compute_away_streaks(v): any input Series, locals initialised
Init ==
    /\ v \in SeqsUpTo(Tags, MaxLen)
    /\ \E r \in 0..MaxRot :
          /\ (r = 0 \/ r < Len(v))
          /\ index = IndexOf(Len(v), r)
    /\ streaks = InitialStreaks
    /\ current_streak = InitialStreak
    /\ pos = 1
    /\ pc = "loop"
    /\ outcome = "running"
    /\ result = <<>>
    /\ IdleCalls /\ IdleFormat /\ IdlePipe /\ IdleFirst /\ IdleTidy /\ IdleStack /\ IdleAlign

\* one iteration of `for row in v`
ForRow ==
    /\ pc = "loop"
    /\ HasNext(pos, v)
    /\ LET b == LoopBody(v[pos], current_streak)
       IN  /\ current_streak' = b.current_streak
           /\ streaks' = Append(streaks, b.appended)
    /\ pos' = pos + 1
    /\ UNCHANGED <<v, index, pc, outcome, result>>
    /\ UNCHANGED <<callVars, otherThanStreak>>

\* the loop is exhausted: streaks = pd.Series(streaks, index=v.index); return
Return ==
    /\ pc = "loop"
    /\ ~HasNext(pos, v)
    /\ LET s == Series(streaks, index)
       IN  /\ outcome' = s.outcome
           /\ result' = s.value
    /\ pc' = "done"
    /\ UNCHANGED <<v, index, streaks, current_streak, pos>>
    /\ UNCHANGED <<callVars, otherThanStreak>>

Next == ForRow \/ Return

Spec == Init /\ [][Next]_vars

\* --------------------------------------------- the function, called again
\* the locals a call starts with: bound afresh by lines 892-893 whatever the
\* previous call left in its own locals
Frame_static(old_streaks, old_current_streak) ==
    [streaks |-> InitialStreaks, current_streak |-> old_current_streak]
Frame(old_streaks, old_current_streak) ==
    [streaks |-> InitialStreaks, current_streak |-> InitialStreak]

\* the inputs of the repeated calls: columns of recognized tags
CallInputs == SeqsUpTo({Away, Home}, MaxCallLen)

InitCalls ==
    /\ v \in CallInputs
    /\ index = IndexOf(Len(v), 0)
    /\ arg = [v |-> v, index |-> index]
    /\ calls = <<>>
    /\ streaks = InitialStreaks
    /\ current_streak = InitialStreak
    /\ pos = 1
    /\ pc = "loop"
    /\ outcome = "running"
    /\ result = <<>>
    /\ IdleFormat /\ IdlePipe /\ IdleFirst /\ IdleTidy /\ IdleStack /\ IdleAlign

\* the call has returned and the notebook calls the function again, on any
\* input
Call ==
    /\ pc = "done"
    /\ Len(calls) < MaxCalls
    /\ calls' = Append(calls, [v |-> arg.v, index |-> arg.index,
                               outcome |-> outcome, result |-> result])
    /\ \E w \in CallInputs :
          /\ v' = w
          /\ index' = IndexOf(Len(w), 0)
          /\ arg' = [v |-> w, index |-> IndexOf(Len(w), 0)]
    /\ LET f == Frame(streaks, current_streak)
       IN  /\ streaks' = f.streaks
           /\ current_streak' = f.current_streak
    /\ pos' = 1
    /\ pc' = "loop"
    /\ outcome' = "running"
    /\ result' = <<>>
    /\ UNCHANGED otherThanStreak

NextCalls == ForRow \/ Return \/ Call

SpecCalls == InitCalls /\ [][NextCalls]_vars

\* ------------------------------------------------------- format_review
\* (notebooks/03-Iterators-Groupby.ipynb).  The notebook declares the
\* function, describes it and tests it, and leaves its body to
\* solutions/groupby_format_review.py; the body below follows the
\* description: one entry per line, split once at ': ', line ending removed.
\* A line is a sequence of characters.
NL == "\n"
Sep == <<":", " ">>

\* the lines a review is made of here: key, separator, value, line ending;
\* with values that are empty, hold ': ' themselves or end in a blank, with
\* a ':' that no blank follows, and one last line of a file that does not
\* end in a line ending
KeyTexts == {<<"a">>, <<"b">>}
Separators == {Sep, <<":">>}
ValueTexts == {<<>>, <<"x">>, <<"x", ":", " ", "y">>, <<":", " ">>, <<"y", " ">>}
ReviewLines ==
    {k \o p \o w \o <<NL>> : k \in KeyTexts, p \in Separators, w \in ValueTexts}
        \cup {<<"b", ":", " ", "x">>}

\* x with the newlines at its end removed
RECURSIVE StripLineEnding(_)
StripLineEnding_keep(x) == x
StripLineEnding(x) ==
    IF x # <<>> /\ x[Len(x)] = NL
    THEN StripLineEnding(SubSeq(x, 1, Len(x) - 1))
    ELSE x

\* the positions of x where ': ' starts
SepAt(x) == {i \in 1..(Len(x) - 1) : x[i] = ":" /\ x[i + 1] = " "}

Least(S) == CHOOSE i \in S : \A j \in S : i <= j
Greatest(S) == CHOOSE i \in S : \A j \in S : i >= j

\* x.split(': ', 1): x cut at the first ': ', or x alone when it has none
SplitOnce_last(x) ==
    IF SepAt(x) = {} THEN <<x>>
    ELSE LET i == Greatest(SepAt(x))
         IN  <<SubSeq(x, 1, i - 1), SubSeq(x, i + 2, Len(x))>>
SplitOnce(x) ==
    IF SepAt(x) = {} THEN <<x>>
    ELSE LET i == Least(SepAt(x))
         IN  <<SubSeq(x, 1, i - 1), SubSeq(x, i + 2, Len(x))>>

\* dict(pairs): a later pair replaces an earlier one with the same key; an
\* element that is not a pair raises ValueError
Dict(pairs) ==
    IF \E i \in DOMAIN pairs : Len(pairs[i]) # 2
    THEN [outcome |-> "ValueError", value |-> <<>>]
    ELSE [outcome |-> "returned",
          value |-> [k \in {pairs[i][1] : i \in DOMAIN pairs} |->
                       pairs[Greatest({i \in DOMAIN pairs : pairs[i][1] = k})][2]]]

\* format_review(review)
format_review(r) ==
    Dict([i \in DOMAIN r |-> SplitOnce(StripLineEnding(r[i]))])

InitFormat ==
    /\ review \in SeqsUpTo(ReviewLines, MaxReviewLines)
    /\ \A i \in 1..(Len(review) - 1) : review[i][Len(review[i])] = NL
    /\ formatted = [outcome |-> "pending", value |-> <<>>]
    /\ IdleStreak /\ IdleCalls /\ IdlePipe /\ IdleFirst /\ IdleTidy /\ IdleStack /\ IdleAlign

FormatReview ==
    /\ formatted.outcome = "pending"
    /\ formatted' = format_review(review)
    /\ UNCHANGED <<review, otherThanFormat>>

NextFormat == FormatReview

SpecFormat == InitFormat /\ [][NextFormat]_vars

\* ------------------------------------------------------ the full pipeline
\* (notebooks/03-Iterators-Groupby.ipynb, lines 381-404).  Every stage is a
\* generator, so nothing is read before the for loop asks for a chunk; the
\* actions below are the steps of that one thread, in the order the
\* generators take them.
\*
\* toolz.partitionby(func, seq) is map(tuple, pluck(1, groupby(seq, key=func))):
\* a group ends when a line with another key has been read, or at the end of
\* the input.  toolz.partition_all(n, seq) is
\*     it = zip_longest(*[iter(seq)] * n, fillvalue=no_pad)
\*     prev = next(it)
\*     for item in it:
\*         yield prev
\*         prev = item
\*     yield prev            (without its padding)
\* so a tuple is handed on only after the tuple that follows it was collected.
Blank == <<NL>>
Nul == "NUL"
NulLine == <<Nul>>

\* the lines of the raw file: blank lines, a line of null bytes, two review
\* lines and a line without ': '
PipeLines == {Blank, NulLine, <<"a", ":", " ", "x", NL>>,
              <<"b", ":", " ", "x", NL>>, <<"a", NL>>}

\* lines = (x for x in f if not x.startswith('\x00')): x is kept
KeepsLine(x) == ~(x # <<>> /\ x[1] = Nul)

\* partitionby's key: lambda x: x == '\n'
IsNewline(x) == x = Blank

\* filter(lambda x: x != ('\n',), ...): the tuple g is kept
KeepsGroup(g) == g # <<Blank>>

\* partition_all's tuple is full
RoundFull(t) == Len(t) = BATCH_SIZE

\* as_dataframe(chunk): pd.DataFrame(list(reviews)) has one row per dict and
\* one column per key that occurs, missing where a dict lacks the key;
\* .replace('', np.nan) makes the empty value missing
NaN == "NaN"
as_dataframe_dropLast(chunk) ==
    LET cols == UNION {DOMAIN chunk[i] : i \in DOMAIN chunk}
    IN  [i \in 1..(Len(chunk) - 1) |->
            [c \in cols |-> IF c \in DOMAIN chunk[i] /\ chunk[i][c] # <<>>
                            THEN chunk[i][c] ELSE NaN]]
as_dataframe(chunk) ==
    LET cols == UNION {DOMAIN chunk[i] : i \in DOMAIN chunk}
    IN  [i \in DOMAIN chunk |->
            [c \in cols |-> IF c \in DOMAIN chunk[i] /\ chunk[i][c] # <<>>
                            THEN chunk[i][c] ELSE NaN]]

\* enumerate(dfs): the first index, and the index after n
EnumStart == 0
NextIndex_stuck(n) == n
NextIndex(n) == n + 1

\* an exception raised inside the with block: nothing catches it, so the
\* run ends there whatever the loop would have done next
Propagate_resume(next_pc) == next_pc
Propagate(next_pc) == "failed"

\* the record of the exception: what raised, the chunk that was being
\* processed, the number of chunk files on disk at that moment
Failure(kind, chunk, files) == [kind |-> kind, chunk |-> chunk, files |-> files]

InitPipe ==
    /\ file \in SeqsUpTo(PipeLines, MaxFileLines)
    /\ fpos = 1
    /\ fopen = TRUE
    /\ group = <<>>
    /\ emitted = <<>>
    /\ exhausted = FALSE
    /\ item = <<>>
    /\ prev = <<>>
    /\ written = <<>>
    /\ ppc = "first"
    /\ failure = <<>>
    /\ handed = <<>>
    /\ yielded = <<>>
    /\ chunk_no = EnumStart
    /\ names = <<>>
    /\ IdleStreak /\ IdleCalls /\ IdleFormat /\ IdleFirst /\ IdleTidy /\ IdleStack /\ IdleAlign

\* partition_all is collecting a tuple and `reviews` has to produce a dict
Pulling ==
    /\ ppc \in {"first", "next"}
    /\ emitted = <<>>
    /\ ~exhausted
    /\ ~RoundFull(item)

\* one line is read from f and passes through `lines` into groupby
ReadLine ==
    /\ Pulling
    /\ fpos <= Len(file)
    /\ fpos' = fpos + 1
    /\ LET x == file[fpos]
       IN  IF ~KeepsLine(x)
           THEN UNCHANGED <<group, emitted>>
           ELSE IF group = <<>> \/ IsNewline(group[1]) = IsNewline(x)
           THEN group' = Append(group, x) /\ UNCHANGED emitted
           ELSE group' = <<x>> /\ emitted' = <<group>>
    /\ UNCHANGED <<file, fopen, exhausted, item, prev, written, ppc, failure,
                   handed, yielded>>
    /\ UNCHANGED enumVars
    /\ UNCHANGED otherThanPipe

\* f has no more lines: the group under construction ends, and after it
\* the stream of groups
EndOfFile ==
    /\ Pulling
    /\ fpos > Len(file)
    /\ IF group # <<>>
       THEN emitted' = <<group>> /\ group' = <<>> /\ UNCHANGED exhausted
       ELSE exhausted' = TRUE /\ UNCHANGED <<group, emitted>>
    /\ UNCHANGED <<file, fpos, fopen, item, prev, written, ppc, failure,
                   handed, yielded>>
    /\ UNCHANGED enumVars
    /\ UNCHANGED otherThanPipe

\* the tuple partitionby produced goes through the filter and, if it is
\* kept, through format_review into partition_all's tuple
FilterFormat ==
    /\ ppc \in {"first", "next"}
    /\ emitted # <<>>
    /\ emitted' = <<>>
    /\ LET g == emitted[1]
           r == format_review(g)
       IN  IF ~KeepsGroup(g)
           THEN UNCHANGED <<item, ppc, failure, handed, yielded, fopen>>
           ELSE /\ handed' = Append(handed, g)
                /\ IF r.outcome = "returned"
                   THEN /\ item' = Append(item, r.value)
                        /\ yielded' = Append(yielded, r.value)
                        /\ UNCHANGED <<ppc, failure, fopen>>
                   ELSE /\ ppc' = Propagate(ppc)
                        /\ failure' = Failure("format_review",
                                               Len(yielded) \div BATCH_SIZE,
                                               Len(written))
                        /\ fopen' = FALSE
                        /\ UNCHANGED <<item, yielded>>
    /\ UNCHANGED <<file, fpos, group, exhausted, prev, written>>
    /\ UNCHANGED enumVars
    /\ UNCHANGED otherThanPipe

\* zip_longest has its tuple (full, or cut short by the end of the input)
\* or finds nothing left: partition_all keeps the first tuple as prev, and
\* from then on hands prev on when the next tuple is there
RoundEnd ==
    /\ ppc \in {"first", "next"}
    /\ emitted = <<>>
    /\ RoundFull(item) \/ exhausted
    /\ IF ppc = "first"
       THEN IF item = <<>>
            THEN ppc' = "close" /\ UNCHANGED <<prev, item>>
            ELSE ppc' = "next" /\ prev' = item /\ item' = <<>>
       ELSE IF item = <<>>
            THEN ppc' = "last" /\ UNCHANGED <<prev, item>>
            ELSE ppc' = "write" /\ UNCHANGED <<prev, item>>
    /\ UNCHANGED <<file, fpos, fopen, group, emitted, exhausted, written,
                   failure, handed, yielded>>
    /\ UNCHANGED enumVars
    /\ UNCHANGED otherThanPipe

\* prev is handed on: as_dataframe(chunk), enumerate gives it the index i,
\* then df.to_csv("chunk_<i>"); partition_all goes on with
\* prev = item
WriteChunk ==
    /\ ppc \in {"write", "last"}
    /\ written' = Append(written, as_dataframe(prev))
    /\ IF ppc = "write"
       THEN prev' = item /\ item' = <<>> /\ ppc' = "next"
       ELSE prev' = <<>> /\ UNCHANGED item /\ ppc' = "close"
    /\ UNCHANGED <<file, fpos, fopen, group, emitted, exhausted, failure,
                   handed, yielded>>
    /\ names' = Append(names, chunk_no)
    /\ chunk_no' = NextIndex(chunk_no)
    /\ UNCHANGED otherThanPipe

\* as_dataframe raises on a value it cannot convert (before enumerate has
\* given an index), or to_csv raises on a write error (after)
WriteFails ==
    /\ ppc \in {"write", "last"}
    /\ \E kind \in {"as_dataframe", "to_csv"} :
          /\ failure' = Failure(kind, Len(written), Len(written))
          /\ chunk_no' = IF kind = "to_csv" THEN NextIndex(chunk_no) ELSE chunk_no
    /\ UNCHANGED names
    /\ ppc' = Propagate(IF ppc = "write" THEN "next" ELSE "close")
    /\ fopen' = FALSE
    /\ UNCHANGED <<file, fpos, group, emitted, exhausted, item, prev, written,
                   handed, yielded>>
    /\ UNCHANGED otherThanPipe

\* the for loop has ended and the with block closes f
Close ==
    /\ ppc = "close"
    /\ fopen' = FALSE
    /\ ppc' = "done"
    /\ UNCHANGED <<file, fpos, group, emitted, exhausted, item, prev, written,
                   failure, handed, yielded>>
    /\ UNCHANGED enumVars
    /\ UNCHANGED otherThanPipe

NextPipe ==
    ReadLine \/ EndOfFile \/ FilterFormat \/ RoundEnd \/ WriteChunk
        \/ WriteFails \/ Close

SpecPipe == InitPipe /\ [][NextPipe]_vars

\* the cells run in one thread, one after the other, and the thread does
\* not stop while it has a step to take
FairPipe == SpecPipe /\ WF_vars(NextPipe)

\* ------------------------------------------------- the first-review cell
\* (notebooks/03-Iterators-Groupby.ipynb, lines 125 and 170-172)
\*     f.seek(0);  # make the cell idempotent
\*     first = list(takewhile(lambda x: x != '\n', f))
\* fpos is the number of the line f reads next.
FirstLines == {Blank, <<"a", ":", " ", "x", NL>>, <<"b", ":", " ", "x", NL>>}

\* f.seek(0): the handle is back at the first line
SeekStart_stay(p) == p
SeekStart(p) == 1

\* takewhile(lambda x: x != '\n', f) from line p on: the line at which it
\* stops (the first blank line, which it consumes, or the end of f)
StopsAt(s, p) ==
    IF \E n \in p..Len(s) : s[n] = Blank
    THEN Least({n \in p..Len(s) : s[n] = Blank})
    ELSE Len(s) + 1

InitFirst ==
    /\ file \in SeqsUpTo(FirstLines, MaxFileLines)
    /\ fpos = 1
    /\ fopen = TRUE
    /\ first = <<>>
    /\ runs = 0
    /\ group = <<>> /\ emitted = <<>> /\ exhausted = FALSE /\ item = <<>>
    /\ prev = <<>> /\ written = <<>> /\ ppc = "idle" /\ failure = <<>>
    /\ handed = <<>> /\ yielded = <<>>
    /\ chunk_no = 0 /\ names = <<>>
    /\ IdleStreak /\ IdleCalls /\ IdleFormat /\ IdleTidy /\ IdleStack /\ IdleAlign

\* the cell runs
FirstCell ==
    /\ fopen
    /\ runs < MaxRuns
    /\ LET p == SeekStart(fpos)
           n == StopsAt(file, p)
       IN  /\ first' = SubSeq(file, p, n - 1)
           /\ fpos' = IF n <= Len(file) THEN n + 1 ELSE n
    /\ runs' = runs + 1
    /\ UNCHANGED <<file, fopen, group, emitted, exhausted, item, prev, written,
                   ppc, failure, handed, yielded>>
    /\ UNCHANGED <<enumVars, otherThanFile>>

\* another cell reads a line from f
ReadElsewhere ==
    /\ fopen
    /\ fpos <= Len(file)
    /\ fpos' = fpos + 1
    /\ UNCHANGED <<file, fopen, group, emitted, exhausted, item, prev, written,
                   ppc, failure, handed, yielded, first, runs>>
    /\ UNCHANGED <<enumVars, otherThanFile>>

NextFirst == FirstCell \/ ReadElsewhere

SpecFirst == InitFirst /\ [][NextFirst]_vars

\* the values of a returned Series, without the labels
Values(r) == [i \in 1..Len(r) |-> r[i].value]

\* --------------------------------------------------- the transform cell
\* (notebooks/05-Tidy-Data.ipynb, lines 954-955)
\*     streaks = tidy.groupby("team").home_away.transform(compute_away_streaks).astype(int)
\*     tidy['away_streak'] = streaks
\* A row of tidy is its index label, its team and its home_away tag.
TeamOrder == <<"Chicago Bulls", "Detroit Pistons">>
Teams == {TeamOrder[i] : i \in DOMAIN TeamOrder}

\* compute_away_streaks(v) as a function of the values and the index of v:
\* the loop of ForRow over all rows, then Return
RECURSIVE RunLoop(_, _, _)
RunLoop(vals, cs, acc) ==
    IF vals = <<>> THEN acc
    ELSE LET b == LoopBody(Head(vals), cs)
         IN  RunLoop(Tail(vals), b.current_streak, Append(acc, b.appended))

compute_away_streaks(vals, idx) ==
    Series(RunLoop(vals, InitialStreak, InitialStreaks), idx)

\* groupby("team"): the positions in t of the rows of team k, in frame order
PositionsOf(t, k) ==
    SelectSeq([i \in DOMAIN t |-> i], LAMBDA i : t[i].team = k)

\* .home_away of the group of team k: the Series handed to the function
GroupOf(t, k) ==
    LET ps == PositionsOf(t, k)
    IN  [values |-> [j \in DOMAIN ps |-> t[ps[j]].home_away],
         index |-> [j \in DOMAIN ps |-> t[ps[j]].label]]

\* transform applies the function to every group and keeps res.values
Applied(t) ==
    [k \in {t[i].team : i \in DOMAIN t} |->
        LET g == GroupOf(t, k)
        IN  Values(compute_away_streaks(g.values, g.index).value)]

\* the groups' values one after the other, in the order of the group keys
RECURSIVE Concat(_, _, _)
Concat(t, res, n) ==
    IF n > Len(TeamOrder) THEN <<>>
    ELSE (IF TeamOrder[n] \in DOMAIN res THEN res[TeamOrder[n]] ELSE <<>>)
             \o Concat(t, res, n + 1)

\* transform combines: every value goes back to the position its row has in
\* the frame (concat(results).sort_index()), under the frame's index
Combine_groupOrder(t, res) ==
    LET flat == Concat(t, res, 1)
    IN  [i \in DOMAIN t |-> [label |-> t[i].label, value |-> flat[i]]]
Combine(t, res) ==
    [i \in DOMAIN t |->
        [label |-> t[i].label,
         value |-> res[t[i].team][Cardinality({j \in 1..i : t[j].team = t[i].team})]]]

\* .astype(int): the values, of dtype object after transform, as integers
AsTypeInt(s) == [dtype |-> "int64", rows |-> s]

\* tidy['away_streak'] = streaks: every row takes the value streaks has
\* under the row's label (missing if there is none)
AssignColumn(t, s) ==
    [i \in DOMAIN t |->
        IF \E j \in DOMAIN s.rows : s.rows[j].label = t[i].label
        THEN s.rows[CHOOSE j \in DOMAIN s.rows : s.rows[j].label = t[i].label].value
        ELSE NaN]

\* tidy: at least one row, distinct index labels in an order that need not
\* be sorted
InitTidy ==
    /\ \E n \in 1..MaxRows :
       \E teams \in [1..n -> Teams] :
       \E tags \in [1..n -> {Away, Home}] :
       \E r \in 0..MaxRot :
          /\ r < n
          /\ tidy = [i \in 1..n |-> [label |-> IndexOf(n, r)[i],
                                      team |-> teams[i],
                                      home_away |-> tags[i]]]
    /\ streaks_col = <<>>
    /\ away_streak = <<>>
    /\ tpc = "transform"
    /\ IdleStreak /\ IdleCalls /\ IdleFormat /\ IdlePipe /\ IdleFirst /\ IdleStack /\ IdleAlign

\* streaks = tidy.groupby("team").home_away.transform(...).astype(int)
TransformCell ==
    /\ tpc = "transform"
    /\ streaks_col' = AsTypeInt(Combine(tidy, Applied(tidy)))
    /\ tpc' = "assign"
    /\ UNCHANGED <<tidy, away_streak>>
    /\ UNCHANGED otherThanTidy

\* tidy['away_streak'] = streaks
AssignCell ==
    /\ tpc = "assign"
    /\ away_streak' = AssignColumn(tidy, streaks_col)
    /\ tpc' = "done"
    /\ UNCHANGED <<tidy, streaks_col>>
    /\ UNCHANGED otherThanTidy

NextTidy == TransformCell \/ AssignCell

SpecTidy == InitTidy /\ [][NextTidy]_vars

\* ------------------------------------------------ the stack / unstack cells
\* (notebooks/05-Tidy-Data.ipynb, lines 460, 477, 509)
\*     rest = tidy.groupby(['home_away', 'date']).rest.mean()
\*     rest.unstack('home_away')
\*     rest.unstack("home_away").stack()
\* rest maps a key <<home_away, date>> to the mean rest of the teams playing
\* in that role on that date; a mean is a float or NaN.
Dates == 1..MaxDates
RestMeans == {"0.0", "1.5"}

\* tidy['rest'] is the days since the team's previous game, so it is NaN
\* for a team's first game: on the first date every team plays its first
\* game and both means are NaN.  Every game melts into an away row and a
\* home row, so both keys exist for every date with a game.
InitStack ==
    /\ \E ds \in (SUBSET Dates) \ {{}} :
          rest \in {r \in [{Away, Home} \X ds -> RestMeans \cup {NaN}] :
                       \A t \in {Away, Home} : r[<<t, Least(ds)>>] = NaN}
    /\ unstacked = <<>>
    /\ stacked = <<>>
    /\ spc = "unstack"
    /\ IdleStreak /\ IdleCalls /\ IdleFormat /\ IdlePipe /\ IdleFirst /\ IdleTidy /\ IdleAlign

\* s.unstack('home_away'): one row per date, one column per tag; a cell
\* with no entry in s is NaN
Unstack(s) ==
    LET rows == {k[2] : k \in DOMAIN s}
        cols == {k[1] : k \in DOMAIN s}
    IN  [d \in rows |-> [t \in cols |->
            IF <<t, d>> \in DOMAIN s THEN s[<<t, d>>] ELSE NaN]]

\* w.stack(): one entry <<date, tag>> per cell; dropna defaults to True, so
\* a NaN cell gives no entry
Stack(w) ==
    LET keys == {k \in UNION {{<<d, t>> : t \in DOMAIN w[d]} : d \in DOMAIN w} :
                    w[k[1]][k[2]] # NaN}
    IN  [k \in keys |-> w[k[1]][k[2]]]

UnstackCell ==
    /\ spc = "unstack"
    /\ unstacked' = Unstack(rest)
    /\ spc' = "stack"
    /\ UNCHANGED <<rest, stacked>>
    /\ UNCHANGED otherThanStack

StackCell ==
    /\ spc = "stack"
    /\ stacked' = Stack(unstacked)
    /\ spc' = "done"
    /\ UNCHANGED <<rest, unstacked>>
    /\ UNCHANGED otherThanStack

NextStack == UnstackCell \/ StackCell

SpecStack == InitStack /\ [][NextStack]_vars

\* ---------------------------------------------------- the alignment cells
\* (notebooks/Day 1.ipynb, lines 129-130, 164)
\*     df1 = pd.DataFrame({"A": [1, 2, 3]}, index=['a', 'b', 'c'])
\*     df2 = pd.DataFrame({"A": [2, 4, 6]}, index=['b', 'a', 'd'])
\*     df1 + df2
\* A frame is the sequence of its rows, a row its index label and its cell
\* in column A.  A cell of a frame built from integers is an integer; a
\* cell of the sum is the float <<x>> or the missing value <<>> (NaN).
LabelOrder == <<"a", "b", "c", "d">>
Labels == {LabelOrder[i] : i \in DOMAIN LabelOrder}
Float(x) == <<x>>
NaNCell == <<>>

\* pd.DataFrame({"A": data}, index=idx)
DataFrame(data, idx) == [i \in DOMAIN idx |-> [label |-> idx[i], A |-> data[i]]]

\* the data of df1 is 1, 2, 3, ...; the data of df2 is 2, 4, 6, ...
Data1(n) == [i \in 1..n |-> i]
Data2(n) == [i \in 1..n |-> 2 * i]

\* an index without repeated labels
Indexes == {s \in SeqsUpTo(Labels, MaxIdx) :
               \A i, j \in DOMAIN s : i # j => s[i] # s[j]}

IndexLabels(f) == {f[i].label : i \in DOMAIN f}
FrameIndex(f) == [i \in DOMAIN f |-> f[i].label]

\* the outer join of two indexes: equal indexes, or one of them empty, join
\* to the index itself; otherwise to the sorted union of the labels
JoinIndex(i1, i2) ==
    IF i1 = i2 \/ i2 = <<>> THEN i1
    ELSE IF i1 = <<>> THEN i2
    ELSE SelectSeq(LabelOrder,
                   LAMBDA l : l \in {i1[i] : i \in DOMAIN i1} \cup {i2[i] : i \in DOMAIN i2})

\* f.reindex(idx): the cell of f under each label of idx, as a float, NaN
\* where f has no such label
Reindex(f, idx) ==
    [i \in DOMAIN idx |->
        IF idx[i] \in IndexLabels(f)
        THEN Float(f[CHOOSE j \in DOMAIN f : f[j].label = idx[i]].A)
        ELSE NaNCell]

\* the sum of two cells: NaN if either is NaN
AddCells(x, y) == IF x = NaNCell \/ y = NaNCell THEN NaNCell ELSE Float(x[1] + y[1])

\* f1 + f2: both frames are aligned to the joined index, then added cell
\* by cell
Add_byPosition(f1, f2) ==
    LET idx == JoinIndex(FrameIndex(f1), FrameIndex(f2))
    IN  [i \in DOMAIN idx |->
            [label |-> idx[i],
             A |-> IF i \in DOMAIN f1 /\ i \in DOMAIN f2
                   THEN Float(f1[i].A + f2[i].A) ELSE NaNCell]]
Add(f1, f2) ==
    LET idx == JoinIndex(FrameIndex(f1), FrameIndex(f2))
        a1 == Reindex(f1, idx)
        a2 == Reindex(f2, idx)
    IN  [i \in DOMAIN idx |-> [label |-> idx[i], A |-> AddCells(a1[i], a2[i])]]

InitAlign ==
    /\ \E i1 \in Indexes : df1 = DataFrame(Data1(Len(i1)), i1)
    /\ \E i2 \in Indexes : df2 = DataFrame(Data2(Len(i2)), i2)
    /\ df_sum = <<>>
    /\ apc = "add"
    /\ IdleStreak /\ IdleCalls /\ IdleFormat /\ IdlePipe /\ IdleFirst /\ IdleTidy
    /\ IdleStack

\* df1 + df2
AddCell ==
    /\ apc = "add"
    /\ df_sum' = Add(df1, df2)
    /\ apc' = "done"
    /\ UNCHANGED <<df1, df2>>
    /\ UNCHANGED otherThanAlign

NextAlign == AddCell

SpecAlign == InitAlign /\ [][NextAlign]_vars

\* ------------------------------------------------------------ properties
\* every tag of s is one of the two recognized values
Recognized(s) == \A i \in 1..Len(s) : s[i] \in {Away, Home}

\* the number of consecutive away tags of s ending at position i inclusive:
\* the length k of the longest block s[i-k+1..i] that is all away
RunEnding(s, i) ==
    CHOOSE k \in 0..i :
        /\ \A j \in (i - k + 1)..i : s[j] = Away
        /\ (k = i \/ s[i - k] # Away)

\* a maximal run of away tags of s: starts at i, has length k
MaximalRun(s, i, k) ==
    /\ k >= 1
    /\ i + k - 1 <= Len(s)
    /\ \A j \in i..(i + k - 1) : s[j] = Away
    /\ (i = 1 \/ s[i - 1] # Away)
    /\ (i + k - 1 = Len(s) \/ s[i + k] # Away)


LeadingHome(s) ==
    CHOOSE h \in 0..Len(s) :
        /\ \A j \in 1..h : s[j] = Home
        /\ (h = Len(s) \/ s[h + 1] # Home)

C6_EmptyGivesEmpty ==
    (pc = "done" /\ v = <<>>) => (outcome = "returned" /\ result = <<>>)

C6_Witness == pc = "done" /\ v = <<>> /\ outcome = "returned"

LineOf(k, w) == k \o Sep \o w \o <<NL>>

\* x begins with p
StartsWith(x, p) == Len(x) >= Len(p) /\ SubSeq(x, 1, Len(p)) = p

\* every line of r is `key: value`: it holds a ': '
WellFormed(r) == \A i \in DOMAIN r : SepAt(r[i]) # {}

\* the review without the line ending of its lines
Unended(r) == [i \in DOMAIN r |-> IF r[i][Len(r[i])] = NL
                                  THEN SubSeq(r[i], 1, Len(r[i]) - 1) ELSE r[i]]

C16_SplitAtFirstOnly ==
    (formatted.outcome # "pending" /\ WellFormed(review) /\ Len(review) = 1) =>
        LET d == formatted.value
            u == Unended(review)[1]
        IN  /\ formatted.outcome = "returned"
            /\ Cardinality(DOMAIN d) = 1
            /\ \A k \in DOMAIN d :
                  /\ SepAt(k \o <<":">>) = {}
                  /\ k \o Sep \o d[k] = u

C16_Witness ==
    /\ formatted.outcome = "returned"
    /\ review = <<LineOf(<<"a">>, <<"x", ":", " ", "y">>)>>
    /\ formatted.value[<<"a">>] = <<"x", ":", " ", "y">>

\* the lines of f that reach partitionby
Kept(f) == SelectSeq(f, KeepsLine)

\* the reviews of a stream of lines: its maximal runs of lines that are not
\* blank, in order
RECURSIVE Reviews(_)
Reviews(s) ==
    IF s = <<>> THEN <<>>
    ELSE IF s[1] = Blank THEN Reviews(Tail(s))
    ELSE LET n == CHOOSE k \in 1..Len(s) :
                      /\ \A j \in 1..k : s[j] # Blank
                      /\ (k = Len(s) \/ s[k + 1] = Blank)
         IN  <<SubSeq(s, 1, n)>> \o Reviews(SubSeq(s, n + 1, Len(s)))

\* C12: at every point of the run at most BATCH_SIZE reviews are formatted
\* and not yet written to a chunk file.
C12_AtMostOneBatchInMemory == Len(prev) + Len(item) <= BATCH_SIZE

\* C13: every item handed to format_review is one review: the items handed
\* over so far are the first maximal runs of non-blank lines of the stream,
\* none is empty, none holds a blank line or a line of null bytes.
C13_OnlyReviewsReachFormat ==
    /\ Len(handed) <= Len(Reviews(Kept(file)))
    /\ \A i \in DOMAIN handed :
          /\ handed[i] = Reviews(Kept(file))[i]
          /\ handed[i] # <<>>
          /\ \A j \in DOMAIN handed[i] :
                ~IsNewline(handed[i][j]) /\ KeepsLine(handed[i][j])

\* C14: `reviews` yields one dict per review of the file, in file order: the
\* i-th dict is the formatting of the i-th review, and when the stream has
\* ended over a file of well-formed reviews there are as many dicts as
\* reviews.
C14_OneDictPerReview ==
    LET rs == Reviews(Kept(file))
    IN  /\ Len(yielded) <= Len(rs)
        /\ \A i \in DOMAIN yielded :
              i <= Len(rs) => yielded[i] = format_review(rs[i]).value
        /\ ((exhausted \/ failure # <<>>) /\ (\A i \in DOMAIN rs : WellFormed(rs[i]))
              /\ (failure # <<>> => failure.kind = "format_review"))
             => Len(yielded) = Len(rs)

\* C17: a failure propagates with no retry and no recovery: the run has
\* ended and f is closed, the chunk files on disk are those that were there
\* when the step failed, all of them chunks before the failing one, and
\* nothing can be done any more.
C17_FailureEndsTheRun ==
    failure # <<>> =>
        /\ ppc = "failed"
        /\ ~fopen
        /\ Len(written) = failure.files
        /\ failure.files <= failure.chunk
        /\ ~ENABLED NextPipe

C17_Witness ==
    /\ failure # <<>>
    /\ failure.kind = "to_csv"
    /\ failure.chunk = 1
    /\ Len(written) = 1
    /\ Len(prev) = 1

\* C18: the first-review cell is idempotent: however often it ran and
\* wherever f stood before, `first` is the lines before the first blank
\* line of the file.
C18_FirstCellIdempotent ==
    runs > 0 =>
        /\ Len(first) <= Len(file)
        /\ first = SubSeq(file, 1, Len(first))
        /\ \A i \in DOMAIN first : first[i] # Blank
        /\ (Len(first) = Len(file) \/ file[Len(first) + 1] = Blank)

C18_Witness ==
    /\ runs = 2
    /\ Len(file) >= 5
    /\ file[3] = Blank /\ file[5] = Blank
    /\ Len(first) = 2
    /\ fpos = 4

\* the streak of row i of t: the number of rows of its team, up to row i,
\* from which on all rows of that team up to row i are away
StreakAt(t, i) ==
    Cardinality({j \in 1..i :
        /\ t[j].team = t[i].team
        /\ \A m \in j..i : t[m].team = t[i].team => t[m].home_away = Away})

C20_StackInvertsUnstack ==
    spc = "done" =>
        /\ \A k \in DOMAIN rest :
              /\ <<k[2], k[1]>> \in DOMAIN stacked
              /\ stacked[<<k[2], k[1]>>] = rest[k]
        /\ \A k \in DOMAIN stacked : <<k[2], k[1]>> \in DOMAIN rest

\* the cell of frame f under label l
CellAt(f, l) == f[CHOOSE i \in DOMAIN f : f[i].label = l].A

\* C21: df1 + df2 has exactly the labels of df1 and of df2, each once; under
\* a label of both frames it holds the sum of the two cells under that
\* label, whatever their rows; under a label of only one frame it holds the
\* missing value.
C21_AddAlignsByLabel ==
    apc = "done" =>
        /\ IndexLabels(df_sum) = IndexLabels(df1) \cup IndexLabels(df2)
        /\ Len(df_sum) = Cardinality(IndexLabels(df_sum))
        /\ \A i \in DOMAIN df_sum :
              IF df_sum[i].label \in IndexLabels(df1) \cap IndexLabels(df2)
              THEN df_sum[i].A = <<CellAt(df1, df_sum[i].label)
                                      + CellAt(df2, df_sum[i].label)>>
              ELSE df_sum[i].A = <<>>

\* the notebook's frames: a is 1 + 4, b is 2 + 2, c and d are missing
C21_Witness ==
    /\ apc = "done"
    /\ df1 = <<[label |-> "a", A |-> 1], [label |-> "b", A |-> 2], [label |-> "c", A |-> 3]>>
    /\ df2 = <<[label |-> "b", A |-> 2], [label |-> "a", A |-> 4], [label |-> "d", A |-> 6]>>
    /\ df_sum = <<[label |-> "a", A |-> <<5>>], [label |-> "b", A |-> <<4>>],
                  [label |-> "c", A |-> <<>>], [label |-> "d", A |-> <<>>]>>

\* row is the row of a chunk file for the formatted review r: a cell per
\* column, the review's value where it has a non-empty one under that key,
\* missing otherwise, and a column for each of its keys
RowOf(r, row) ==
    /\ r.outcome = "returned"
    /\ DOMAIN r.value \subseteq DOMAIN row
    /\ \A c \in DOMAIN row :
          IF c \in DOMAIN r.value /\ r.value[c] # <<>>
          THEN row[c] = r.value[c]
          ELSE row[c] = NaN

\* C22: the chunk files are consecutive blocks of the reviews of the file,
\* in order: every file written holds 1 to BATCH_SIZE rows, every file but
\* the last of a run that ended normally holds exactly BATCH_SIZE, row j of
\* chunk k is the review number k * BATCH_SIZE + j, and when the run has
\* ended the files hold as many rows as the file has reviews (none, and no
\* file, if it has no review).
C22_ChunksPartitionReviews ==
    LET rs == Reviews(Kept(file))
    IN  /\ \A k \in DOMAIN written :
              /\ Len(written[k]) \in 1..BATCH_SIZE
              /\ (k < Len(written) \/ ppc \notin {"close", "done"})
                    => Len(written[k]) = BATCH_SIZE
              /\ \A j \in DOMAIN written[k] :
                    LET n == (k - 1) * BATCH_SIZE + j
                    IN  /\ n <= Len(rs)
                        /\ RowOf(format_review(rs[n]), written[k][j])
        /\ ppc = "done" =>
              IF rs = <<>> THEN written = <<>>
              ELSE /\ written # <<>>
                   /\ (Len(written) - 1) * BATCH_SIZE
                          + Len(written[Len(written)]) = Len(rs)

C22_Witness ==
    /\ ppc = "done"
    /\ Len(written) = 2
    /\ Len(written[1]) = BATCH_SIZE
    /\ Len(written[2]) = 1
    /\ \E i \in DOMAIN file : file[i] = NulLine
    /\ Cardinality(DOMAIN written[1][1]) = 2

\* C23: chunk files are written under the indexes 0, 1, 2, ... in that
\* order, without a gap and each once, and a step that writes a chunk file
\* writes one file, whose reviews have all been read from f, handed to
\* format_review and formatted before the step.
C23_ChunksWrittenInOrder ==
    [][(written' # written \/ names' # names) =>
          LET new == written'[Len(written')]
              n == Len(written) * BATCH_SIZE + Len(new)
              read == Reviews(Kept(SubSeq(file, 1, fpos - 1)))
          IN  /\ Len(names) = Len(written)
              /\ names' = Append(names, Len(names))
              /\ written' = Append(written, new)
              /\ n <= Len(yielded) /\ n <= Len(handed) /\ n <= Len(read)
              /\ \A j \in 1..n :
                    /\ handed[j] = read[j]
                    /\ yielded[j] = format_review(handed[j]).value]_vars

C23_Witness ==
    /\ names = <<0, 1>>
    /\ Len(written) = 2
    /\ Len(yielded) = 3
    /\ ppc = "close"

\* every review of the file is well formed
WellFormedFile ==
    \A i \in DOMAIN Reviews(Kept(file)) : WellFormed(Reviews(Kept(file))[i])

CeilDiv(a, b) == (a + b - 1) \div b

\* the run has ended normally: the loop is over, f is closed and read to
\* its end, and there are ceil(R / BATCH_SIZE) chunk files
Terminated ==
    /\ ppc = "done"
    /\ ~fopen
    /\ fpos = Len(file) + 1
    /\ Len(written) = CeilDiv(Len(Reviews(Kept(file))), BATCH_SIZE)

\* the run was ended by an error of the environment (a write that failed)
EnvFailed == failure # <<>> /\ failure.kind \in {"as_dataframe", "to_csv"}

\* C24: on every file whose reviews are all well formed the pipeline
\* terminates, short of a write error: all lines are read, exactly
\* ceil(R / BATCH_SIZE) chunk files are written, the loop ends and f is
\* closed.
C24_Terminates ==
    (ppc = "first" /\ WellFormedFile) ~> (Terminated \/ EnvFailed)

====
